---- MODULE Spec2Model ----
(***************************************************************************)
(* A model of the extractous Tika bridge: the packed-buffer decoder         *)
(* (tika/parse_embedded_optimized.rs), the batching decorator               *)
(* (tika/parse_embedded_batch.rs), the result wrappers and the streaming    *)
(* reader (tika/wrappers.rs), and the direct-list strategy                  *)
(* (tika/parse_embedded.rs).                                                *)
(*                                                                         *)
(* Values.  A Rust String is a sequence of Unicode scalar values; a byte    *)
(* buffer is a sequence over 0..255; Option<T> is <<>> (None) or <<x>>      *)
(* (Some(x)); a Result is a record with tag "Ok", "Err" or "Panic" (an      *)
(* unwinding panic is an outcome of the build, not an error value).  An     *)
(* error message is [fmt, args], the format string and its arguments.       *)
(***************************************************************************)
EXTENDS Integers, Sequences, FiniteSets, TLC

VARIABLES
    (* packed-buffer decoder: the inputs of unpack_optimized_data and its result *)
    c_v,            \* the documents the foreign side packed
    c_data,         \* data: &[u8]
    c_expected,     \* expected_count: i32
    c_result,       \* <<>> before the call, <<r>> after it
    (* extract_embedded_streaming *)
    s_pc,           \* "idle", "loop", "done"
    s_batch_size,   \* batch_size: usize
    s_documents,    \* result.documents, as extracted
    s_next,         \* number of documents the for loop has consumed
    s_batch,        \* batch: Vec<EmbeddedDocument>
    s_calls,        \* the batches handed to the callback, in invocation order
    s_answers,      \* what the callback returned, in invocation order
    s_ret,          \* <<>> while running, <<r>> once the function has returned
    s_extracted,    \* one [log, ret] per extract_embedded_optimized call made
    (* result wrappers: one foreign result object and its unmarshalling *)
    u_op,           \* which operation unmarshals the object
    u_obj,          \* the foreign result object
    u_calls,        \* accessor calls made on the object, in order
    u_ret,          \* <<>> before the call, <<r>> after it
    u_log,          \* foreign calls a strategy issued before unmarshalling, in order
    u_env,          \* which of those calls failed, if any (env without the object)
    (* JReaderInputStream *)
    r_state,        \* "none", "open", "dropped", or "failed" when new returned Err
    r_capacity,     \* self.capacity
    r_buffer,       \* self.buffer: the size of the Java byte array it refers to
    r_reads,        \* history: the reads made, the lengths requested, the last read
    r_closes,       \* history: whether drop attached, and the close calls issued
    r_ret,          \* <<>> or <<r>>: what the last read returned
    r_array,        \* the first bytes of the Java byte array self.buffer refers to
    r_buf           \* the first bytes of the caller's buf after the last read

codecVars == <<c_v, c_data, c_expected, c_result>>
streamVars ==
    <<s_pc, s_batch_size, s_documents, s_next, s_batch, s_calls, s_answers, s_ret,
      s_extracted>>
resultVars == <<u_op, u_obj, u_calls, u_ret, u_log, u_env>>
readerVars == <<r_state, r_capacity, r_buffer, r_reads, r_closes, r_ret, r_array, r_buf>>
vars == <<codecVars, streamVars, resultVars, readerVars>>

----------------------------------------------------------------------------
(* Results and messages *)

None == <<>>
Some(x) == <<x>>

Msg(fmt, args) == [fmt |-> fmt, args |-> args]
Ok(x) == [tag |-> "Ok", val |-> x]
Err(kind, msg) == [tag |-> "Err", kind |-> kind, msg |-> msg]
Panic(why) == [tag |-> "Panic", why |-> why]

IsOk(r) == r.tag = "Ok"
IsErr(r) == r.tag = "Err"
IsErrOf(r, kind) == r.tag = "Err" /\ r.kind = kind

RECURSIVE Concat(_)
Concat(ss) == IF ss = <<>> THEN <<>> ELSE Head(ss) \o Concat(Tail(ss))

----------------------------------------------------------------------------
(* Bounds of the model *)

\* longest document sequence handed to the decoder as a packed buffer
MaxPacked == 2
\* longest document sequence extracted for the batching decorator
MaxDocs == 3
\* largest batch size tried
MaxBatch == 3

----------------------------------------------------------------------------
(* UTF-8, as String::from_utf8 and str::as_bytes compute it *)

IsCont(b) == b >= 128 /\ b <= 191

Utf8EncodeChar(cp) ==
    IF cp < 128 THEN <<cp>>
    ELSE IF cp < 2048 THEN <<192 + (cp \div 64), 128 + (cp % 64)>>
    ELSE IF cp < 65536 THEN
        <<224 + (cp \div 4096), 128 + ((cp \div 64) % 64), 128 + (cp % 64)>>
    ELSE <<240 + (cp \div 262144), 128 + ((cp \div 4096) % 64),
           128 + ((cp \div 64) % 64), 128 + (cp % 64)>>

RECURSIVE Utf8Encode(_)
Utf8Encode(s) == IF s = <<>> THEN <<>> ELSE Utf8EncodeChar(Head(s)) \o Utf8Encode(Tail(s))

\* Number of bytes of the well-formed sequence starting at b[i], 0 when there is none
Utf8SeqLen(b, i) ==
    LET n == Len(b)
        b0 == b[i]
        c1 == IF i + 1 <= n THEN b[i + 1] ELSE 0
        c2 == IF i + 2 <= n THEN b[i + 2] ELSE 0
        c3 == IF i + 3 <= n THEN b[i + 3] ELSE 0
    IN  IF b0 < 128 THEN 1
        ELSE IF b0 >= 194 /\ b0 <= 223 THEN (IF IsCont(c1) THEN 2 ELSE 0)
        ELSE IF b0 = 224 THEN (IF c1 >= 160 /\ c1 <= 191 /\ IsCont(c2) THEN 3 ELSE 0)
        ELSE IF (b0 >= 225 /\ b0 <= 236) \/ b0 = 238 \/ b0 = 239 THEN
            (IF IsCont(c1) /\ IsCont(c2) THEN 3 ELSE 0)
        ELSE IF b0 = 237 THEN (IF c1 >= 128 /\ c1 <= 159 /\ IsCont(c2) THEN 3 ELSE 0)
        ELSE IF b0 = 240 THEN
            (IF c1 >= 144 /\ c1 <= 191 /\ IsCont(c2) /\ IsCont(c3) THEN 4 ELSE 0)
        ELSE IF b0 >= 241 /\ b0 <= 243 THEN
            (IF IsCont(c1) /\ IsCont(c2) /\ IsCont(c3) THEN 4 ELSE 0)
        ELSE IF b0 = 244 THEN
            (IF c1 >= 128 /\ c1 <= 143 /\ IsCont(c2) /\ IsCont(c3) THEN 4 ELSE 0)
        ELSE 0

Utf8CodePoint(b, i, k) ==
    IF k = 1 THEN b[i]
    ELSE IF k = 2 THEN (b[i] - 192) * 64 + (b[i + 1] - 128)
    ELSE IF k = 3 THEN (b[i] - 224) * 4096 + (b[i + 1] - 128) * 64 + (b[i + 2] - 128)
    ELSE (b[i] - 240) * 262144 + (b[i + 1] - 128) * 4096
         + (b[i + 2] - 128) * 64 + (b[i + 3] - 128)

\* String::from_utf8: Some(string) for well-formed UTF-8, None otherwise
RECURSIVE from_utf8_at(_, _, _)
from_utf8_at(b, i, acc) ==
    IF i > Len(b) THEN Some(acc)
    ELSE LET k == Utf8SeqLen(b, i)
         IN  IF k = 0 THEN None
             ELSE from_utf8_at(b, i + k, Append(acc, Utf8CodePoint(b, i, k)))

from_utf8(b) == from_utf8_at(b, 1, <<>>)

----------------------------------------------------------------------------
(* i32, big-endian *)

\* i32::from_be_bytes
i32_from_le_bytes(b) ==
    (IF b[4] >= 128 THEN b[4] - 256 ELSE b[4]) * 16777216
    + b[3] * 65536 + b[2] * 256 + b[1]

i32_from_be_bytes(b) ==
    (IF b[1] >= 128 THEN b[1] - 256 ELSE b[1]) * 16777216
    + b[2] * 65536 + b[3] * 256 + b[4]

\* the four bytes of an i32, most significant first (two's complement)
i32_to_be_bytes(n) ==
    <<(n \div 16777216) % 256, (n \div 65536) % 256, (n \div 256) % 256, n % 256>>

----------------------------------------------------------------------------
(* EmbeddedDocument values used as inputs *)

EmbeddedDocument(name, type, content, rel) ==
    [resource_name |-> name, content_type |-> type, content |-> content,
     embedded_relationship_id |-> rel]

\* "a", type "t", two content bytes, no relationship id
DocA == EmbeddedDocument(<<97>>, <<116>>, <<0, 255>>, None)
\* a two-byte character, empty type and content, a present-but-empty relationship id
DocB == EmbeddedDocument(<<233>>, <<>>, <<>>, Some(<<>>))
\* a three-byte and a four-byte character, one content byte that is no UTF-8
DocC == EmbeddedDocument(<<8364, 97>>, <<116>>, <<128>>, Some(<<128512>>))

DocSet == {DocA, DocB, DocC}

\* what the wire format keeps of a document: an empty relationship id is absent
Lossy(d) ==
    [d EXCEPT !.embedded_relationship_id = IF @ = Some(<<>>) THEN None ELSE @]

DocSeqsTo(k) == UNION {[1..n -> DocSet] : n \in 0..k}

----------------------------------------------------------------------------
(* The packed buffer, written as the foreign side writes it (sect. 4.3):     *)
(*   buffer := count:i32 document*                                          *)
(*   document := name:LPString type:LPString relId:LPString                 *)
(*               contentLen:i32 content                                     *)

LPBytes(b) == i32_to_be_bytes(Len(b)) \o b
LPString(s) == LPBytes(Utf8Encode(s))

pack_document(d) ==
    LPString(d.resource_name) \o LPString(d.content_type)
    \o LPString(IF d.embedded_relationship_id = None THEN <<>>
                ELSE d.embedded_relationship_id[1])
    \o LPBytes(d.content)

RECURSIVE pack_documents_from(_, _)
pack_documents_from(v, i) ==
    IF i > Len(v) THEN <<>> ELSE pack_document(v[i]) \o pack_documents_from(v, i + 1)

pack_documents(v) == i32_to_be_bytes(Len(v)) \o pack_documents_from(v, 1)

----------------------------------------------------------------------------
(* unpack_optimized_data and its readers.  A reader takes the buffer and the *)
(* cursor position (bytes consumed so far) and returns a Result carrying the *)
(* new position.                                                            *)

ROk(x, pos) == [tag |-> "Ok", val |-> x, pos |-> pos]

\* `n as usize` of a negative i32 is above isize::MAX: Vec::with_capacity and
\* vec![0; n] panic with "capacity overflow" before anything is read
alloc_panics(n) == n < 0

\* Read::read_exact on a Cursor: all n bytes or UnexpectedEof
read_exact_short(data, pos, n) ==
    LET m == IF Len(data) - pos >= n THEN n ELSE Len(data) - pos
    IN  ROk(SubSeq(data, pos + 1, pos + m) \o [i \in 1..(n - m) |-> 0], pos + m)

read_exact(data, pos, n) ==
    IF Len(data) - pos >= n
    THEN ROk(SubSeq(data, pos + 1, pos + n), pos + n)
    ELSE Err("UnexpectedEof", Msg("failed to fill whole buffer", <<>>))

read_i32(data, pos) ==
    LET of(r) == IF ~IsOk(r) THEN Err("ParseError", Msg("Failed to read i32: {}", <<>>))
                 ELSE ROk(i32_from_be_bytes(r.val), r.pos)
    IN  of(read_exact(data, pos, 4))

read_string(data, pos) ==
    LET decoded(r, s) ==
            IF s = None
            THEN Err("ParseError", Msg("Failed to decode string as UTF-8: {}", <<>>))
            ELSE ROk(s[1], r.pos)
        body(r) ==
            IF ~IsOk(r) THEN Err("ParseError", Msg("Failed to read string data: {}", <<>>))
            ELSE decoded(r, from_utf8(r.val))
        of(l) ==
            IF ~IsOk(l) THEN l
            ELSE IF alloc_panics(l.val) THEN Panic("capacity overflow")
            ELSE body(read_exact(data, l.pos, l.val))
    IN  of(read_i32(data, pos))

\* lines 102-106: an empty relationship id is None
relationship_id_keep_empty(s) == Some(s)

relationship_id(s) == IF s = <<>> THEN None ELSE Some(s)

\* lines 108-112: content_len, then exactly that many bytes
read_content(data, pos) ==
    LET body(r) ==
            IF ~IsOk(r) THEN Err("ParseError", Msg("Failed to read content: {}", <<>>))
            ELSE r
        of(l) ==
            IF ~IsOk(l) THEN l
            ELSE IF alloc_panics(l.val) THEN Panic("capacity overflow")
            ELSE body(read_exact(data, l.pos, l.val))
    IN  of(read_i32(data, pos))

\* one iteration of the loop of lines 98-120: name, type, relationship id and
\* content in this order, the first failure ending the frame
read_document(data, pos) ==
    LET with_content(name, type, rel, content) ==
            IF ~IsOk(content) THEN content
            ELSE ROk(EmbeddedDocument(name.val, type.val, content.val,
                                      relationship_id(rel.val)),
                     content.pos)
        with_rel(name, type, rel) ==
            IF ~IsOk(rel) THEN rel
            ELSE with_content(name, type, rel, read_content(data, rel.pos))
        with_type(name, type) ==
            IF ~IsOk(type) THEN type
            ELSE with_rel(name, type, read_string(data, type.pos))
        with_name(name) ==
            IF ~IsOk(name) THEN name
            ELSE with_type(name, read_string(data, name.pos))
    IN  with_name(read_string(data, pos))

\* for _ in 0..count: any failing frame discards the documents read so far
RECURSIVE read_documents(_, _, _, _)
read_documents(data, pos, remaining, documents) ==
    LET of(d) == IF ~IsOk(d) THEN d
                 ELSE read_documents(data, d.pos, remaining - 1,
                                     Append(documents, d.val))
    IN  IF remaining <= 0 THEN Ok(documents)
        ELSE of(read_document(data, pos))

\* lines 90-95
count_check(count, expected_count) == count = expected_count

unpack_optimized_data(data, expected_count) ==
    LET of(count) ==
            IF ~IsOk(count) THEN count
            ELSE IF ~count_check(count.val, expected_count)
            THEN Err("ParseError",
                     Msg("Document count mismatch: expected {}, got {}",
                         <<expected_count, count.val>>))
            ELSE read_documents(data, count.pos, count.val, <<>>)
    IN  IF alloc_panics(expected_count) THEN Panic("capacity overflow")
        ELSE of(read_i32(data, 0))

----------------------------------------------------------------------------
(* The decoder applied to packed, truncated and damaged buffers *)

\* byte values written over a byte of a packed buffer
DamageBytes == {0, 128, 255}

Truncations(b) == {SubSeq(b, 1, t) : t \in 0..(Len(b) - 1)}
Damaged(b) == {[b EXCEPT ![i] = x] : i \in 1..Len(b), x \in DamageBytes}
Buffers(v) == {pack_documents(v)} \cup Truncations(pack_documents(v))
              \cup Damaged(pack_documents(v))

ExpectedCounts == (-1)..(MaxPacked + 1)

CodecIdle ==
    /\ c_v = <<>>
    /\ c_data = <<>>
    /\ c_expected = 0
    /\ c_result = <<>>

Unpack ==
    /\ c_result = <<>>
    /\ c_result' = <<unpack_optimized_data(c_data, c_expected)>>
    /\ UNCHANGED <<c_v, c_data, c_expected>>
    /\ UNCHANGED <<streamVars, resultVars, readerVars>>

----------------------------------------------------------------------------
(* Foreign result objects.  A Java reference is None (null) or Some(x).  An  *)
(* object lists in `throws` the accessors whose JNI call fails (a pending    *)
(* exception): jni_call_method returns Err and `?` propagates it.            *)

JniError == Err("JniError", Msg("jni call failed", <<>>))

\* jni_jobject_to_string: the text of a (non-null) Java string
jni_jobject_to_string(ref) == Ok(ref[1])

\* `as u8` of a jbyte
as_u8(b) == IF b < 0 THEN b + 256 ELSE b

\* what a wrapper's constructor did: the accessor calls it made and its result
Done(calls, ret) == [calls |-> calls, ret |-> ret]

----------------------------------------------------------------------------
(* JOptimizedResult::new, wrappers.rs 553-624 *)

JOptimizedResult_new(obj) ==
    LET c1 == <<"getErrorCode">>
    IN  IF "getErrorCode" \in obj.throws THEN Done(c1, JniError) ELSE
    LET error_code == as_u8(obj.error_code)
        c2 == IF error_code # 0 THEN Append(c1, "getErrorMessage") ELSE c1
    IN  IF error_code # 0 /\ "getErrorMessage" \in obj.throws THEN Done(c2, JniError) ELSE
    LET error_message == IF error_code # 0 THEN obj.error_message ELSE None
        c3 == Append(c2, "getDocumentCount")
    IN  IF "getDocumentCount" \in obj.throws THEN Done(c3, JniError) ELSE
    LET c4 == IF error_code = 0 THEN Append(c3, "getPackedData") ELSE c3
    IN  IF error_code = 0 /\ "getPackedData" \in obj.throws THEN Done(c4, JniError) ELSE
    LET packed_data == IF error_code = 0 THEN obj.packed_data ELSE None
        c5 == IF packed_data # None
              THEN c4 \o <<"ByteBuffer.capacity", "ByteBuffer.rewind", "ByteBuffer.get">>
              ELSE c4
    IN  Done(c5, Ok([error_code |-> error_code, error_message |-> error_message,
                     packed_data |-> packed_data,
                     document_count |-> obj.document_count]))

----------------------------------------------------------------------------
(* The foreign calls a strategy issues before it unmarshals the result,       *)
(* parse_embedded.rs 22-50 and parse_embedded_optimized.rs 23-51, with the    *)
(* config wrappers of wrappers.rs 209-412.  A call is <<target, name>>.       *)

AttachCall == <<"vm", "attach_current_thread">>
NewStringCall == <<"env", "new_string">>
NewByteBufferCall == <<"env", "new_direct_byte_buffer">>

\* what a strategy makes of its input before it builds the configs: the file
\* path as a Java string, or the bytes as a direct ByteBuffer
input_call(entry) ==
    IF entry = "extractEmbeddedFromBytes" THEN NewByteBufferCall ELSE NewStringCall

\* wrappers.rs 216-252
PdfSetters ==
    <<"setExtractInlineImages", "setExtractUniqueInlineImagesOnly",
      "setExtractMarkedContent", "setExtractAnnotationText", "setOcrStrategy">>

\* wrappers.rs 278-347
OfficeSetters ==
    <<"setExtractMacros", "setIncludeDeletedContent", "setIncludeMoveFromContent",
      "setIncludeShapeBasedContent", "setIncludeHeadersAndFooters",
      "setIncludeMissingRows", "setIncludeSlideNotes", "setIncludeSlideMasterContent",
      "setConcatenatePhoneticRuns", "setExtractAllAlternativesFromMSG">>

\* wrappers.rs 372-408
OcrSetters ==
    <<"setDensity", "setDepth", "setTimeoutSeconds", "setEnableImagePreprocessing",
      "setApplyRotation", "setLanguage">>

\* the setters whose argument is a Java string, created just before the call
StringSetters == {"setOcrStrategy", "setLanguage"}

RECURSIVE setter_calls(_, _, _)
setter_calls(class, setters, i) ==
    IF i > Len(setters) THEN <<>>
    ELSE (IF setters[i] \in StringSetters THEN <<NewStringCall>> ELSE <<>>)
         \o <<(<<class, setters[i]>>)>> \o setter_calls(class, setters, i + 1)

\* J...Config::new: find_class, new_object, then the setters in source order
config_calls(class, setters) ==
    <<(<<class, "find_class">>), (<<class, "new_object">>)>>
    \o setter_calls(class, setters, 1)

\* attach, the input, the three configs, the static call `entry`
strategy_calls(entry) ==
    <<AttachCall, input_call(entry)>>
    \o config_calls("PDFParserConfig", PdfSetters)
    \o config_calls("OfficeParserConfig", OfficeSetters)
    \o config_calls("TesseractOCRConfig", OcrSetters)
    \o <<(<<"TikaNativeMain", entry>>)>>

\* each call is followed by `?`: the first failing call is the last one issued.
\* env.attach: the attach succeeds; env.setup: the position in strategy_calls of
\* the failing string, class, object or setter call, or 0; env.returns: the
\* static call returns.
issued_despite_failure(entry, env) ==
    [log |-> strategy_calls(entry), ok |-> env.attach /\ env.setup = 0 /\ env.returns]

issued(entry, env) ==
    IF ~env.attach THEN [log |-> <<AttachCall>>, ok |-> FALSE]
    ELSE IF env.setup # 0
    THEN [log |-> SubSeq(strategy_calls(entry), 1, env.setup), ok |-> FALSE]
    ELSE [log |-> strategy_calls(entry), ok |-> env.returns]

----------------------------------------------------------------------------
(* extract_embedded_optimized, parse_embedded_optimized.rs 17-81.  `env` is  *)
(* what the foreign runtime does during the call: whether the thread         *)
(* attaches, whether the static call returns, and the result object.         *)

EmbeddedExtractResult(documents, metadata) ==
    [documents |-> documents, metadata |-> metadata]

\* HashMap::new()
EmptyMetadata == <<>>

extract_embedded_optimized(env) ==
    LET unpacked(calls, documents) ==
            IF ~IsOk(documents) THEN Done(calls, documents)
            ELSE Done(calls, Ok(EmbeddedExtractResult(documents.val, EmptyMetadata)))
        checked(calls, j_result) ==
            IF j_result.error_code # 0
            THEN Done(calls,
                      Err("ParseError",
                          IF j_result.error_message # None
                          THEN j_result.error_message[1]
                          ELSE Msg("Optimized embedded extraction failed with code {}",
                                   <<j_result.error_code>>)))
            ELSE IF j_result.packed_data = None
            THEN Done(calls,
                      Err("ParseError",
                          Msg("No packed data returned from optimized extraction",
                              <<>>)))
            ELSE unpacked(calls, unpack_optimized_data(j_result.packed_data[1],
                                                      j_result.document_count))
        of(j) == IF ~IsOk(j.ret) THEN j ELSE checked(j.calls, j.ret.val)
    IN  IF ~issued("extractEmbeddedOptimized", env).ok THEN Done(<<>>, JniError)
        ELSE of(JOptimizedResult_new(env.obj))

----------------------------------------------------------------------------
(* extract_embedded_streaming, parse_embedded_batch.rs 22-59 *)

OptimizedResult(code, message, packed, count, throws) ==
    [error_code |-> code, error_message |-> message, packed_data |-> packed,
     document_count |-> count, throws |-> throws]

ForeignEnv(attach, returns, obj) ==
    [attach |-> attach, setup |-> 0, returns |-> returns, obj |-> obj]

\* the environment in which the k-th call of the strategy fails
FailingSetup(k, obj) == [attach |-> TRUE, setup |-> k, returns |-> TRUE, obj |-> obj]

\* a message of the foreign side
ForeignMsg == Msg("foreign failure", <<>>)

\* the foreign side packs v and reports its length
Extracted(v) == ForeignEnv(TRUE, TRUE,
                           OptimizedResult(0, None, Some(pack_documents(v)), Len(v), {}))

\* the callback's answers: continue, stop, or an error of its own
CallbackError == Err("CallbackError", Msg("callback failed", <<>>))
Answers == {Ok(TRUE), Ok(FALSE), CallbackError}

Unit == "()"

StreamIdle ==
    /\ s_pc = "idle"
    /\ s_batch_size = 0
    /\ s_documents = <<>>
    /\ s_next = 0
    /\ s_batch = <<>>
    /\ s_calls = <<>>
    /\ s_answers = <<>>
    /\ s_ret = <<>>
    /\ s_extracted = <<>>

\* line 35, `extract_embedded_optimized(...)?`: where the call goes on, with
\* which documents, and what it has returned
after_extraction_swallowing_error(r) ==
    IF IsOk(r) THEN <<"loop", r.val.documents, <<>>>> ELSE <<"loop", <<>>, <<>>>>

after_extraction(r) ==
    IF IsOk(r) THEN <<"loop", r.val.documents, <<>>>> ELSE <<"done", <<>>, <<r>>>>

\* lines 35-38: the eager extraction, then an empty batch
StreamStart(env, batch_size) ==
    /\ s_pc = "idle"
    /\ \E r \in {extract_embedded_optimized(env).ret} :
           /\ s_pc' = after_extraction(r)[1]
           /\ s_documents' = after_extraction(r)[2]
           /\ s_ret' = after_extraction(r)[3]
           /\ s_extracted' =
                  Append(s_extracted,
                         [log |-> issued("extractEmbeddedOptimized", env).log, ret |-> r])
    /\ s_batch_size' = batch_size
    /\ s_next' = 0
    /\ s_batch' = <<>>
    /\ s_calls' = <<>>
    /\ s_answers' = <<>>
    /\ UNCHANGED <<codecVars, resultVars, readerVars>>

\* line 43
batch_is_full_off_by_one(batch, batch_size) == Len(batch) > batch_size

batch_is_full(batch, batch_size) == Len(batch) >= batch_size

\* lines 40-42 when the batch is not yet full: push and go on
StreamPush ==
    /\ s_pc = "loop"
    /\ s_next < Len(s_documents)
    /\ LET batch == Append(s_batch, s_documents[s_next + 1])
       IN  /\ ~batch_is_full(batch, s_batch_size)
           /\ s_batch' = batch
    /\ s_next' = s_next + 1
    /\ UNCHANGED <<s_pc, s_batch_size, s_documents, s_calls, s_answers, s_ret, s_extracted>>
    /\ UNCHANGED <<codecVars, resultVars, readerVars>>

\* lines 45-49: what follows the callback's answer
after_batch_ignoring_stop(answer) ==
    IF IsErr(answer) THEN <<"done", <<answer>>>>
    ELSE <<"loop", <<>>>>

after_batch(answer) ==
    IF IsErr(answer) THEN <<"done", <<answer>>>>
    ELSE IF ~answer.val THEN <<"done", <<Ok(Unit)>>>>
    ELSE <<"loop", <<>>>>

\* lines 40-50 when the push fills the batch: the callback gets it
StreamBatch(answer) ==
    /\ s_pc = "loop"
    /\ s_next < Len(s_documents)
    /\ LET batch == Append(s_batch, s_documents[s_next + 1])
       IN  /\ batch_is_full(batch, s_batch_size)
           /\ s_calls' = Append(s_calls, batch)
    /\ s_answers' = Append(s_answers, answer)
    /\ s_pc' = after_batch(answer)[1]
    /\ s_ret' = after_batch(answer)[2]
    /\ s_batch' = <<>>
    /\ s_next' = s_next + 1
    /\ UNCHANGED <<s_batch_size, s_documents, s_extracted>>
    /\ UNCHANGED <<codecVars, resultVars, readerVars>>

\* line 56, `callback(batch)?;`: an error returns, the boolean is unused
after_remainder_swallowing_error(answer) == <<Ok(Unit)>>

after_remainder(answer) == IF IsErr(answer) THEN <<answer>> ELSE <<Ok(Unit)>>

\* line 55, `if !batch.is_empty()`
remainder_is_always_delivered(batch) == TRUE

remainder_is_delivered(batch) == batch # <<>>

\* lines 54-58 with a non-empty remainder: one last callback
StreamRemainder(answer) ==
    /\ s_pc = "loop"
    /\ s_next = Len(s_documents)
    /\ remainder_is_delivered(s_batch)
    /\ s_calls' = Append(s_calls, s_batch)
    /\ s_answers' = Append(s_answers, answer)
    /\ s_ret' = after_remainder(answer)
    /\ s_pc' = "done"
    /\ s_batch' = <<>>
    /\ UNCHANGED <<s_batch_size, s_documents, s_next, s_extracted>>
    /\ UNCHANGED <<codecVars, resultVars, readerVars>>

\* lines 54-58 with nothing left over
StreamReturn ==
    /\ s_pc = "loop"
    /\ s_next = Len(s_documents)
    /\ ~remainder_is_delivered(s_batch)
    /\ s_ret' = <<Ok(Unit)>>
    /\ s_pc' = "done"
    /\ UNCHANGED <<s_batch_size, s_documents, s_next, s_batch, s_calls, s_answers,
                   s_extracted>>
    /\ UNCHANGED <<codecVars, resultVars, readerVars>>

----------------------------------------------------------------------------
(* JStringResult::new and JReaderResult::new, wrappers.rs 115-198 *)

\* the match on the status byte, lines 125-129 and 167-171
error_of_status_all_parse(status, msg) == Err("ParseError", msg)

error_of_status(status, msg) ==
    IF status = 1 THEN Err("IoError", msg)
    ELSE IF status = 2 THEN Err("ParseError", msg)
    ELSE Err("Unknown", msg)

\* lines 117-129: the envelope of a string or reader result, None when it is no error
error_envelope(obj) ==
    LET c1 == <<"isError">>
    IN  IF "isError" \in obj.throws THEN Done(c1, Some(JniError)) ELSE
        IF ~obj.is_error THEN Done(c1, None) ELSE
    LET c2 == Append(c1, "getStatus")
    IN  IF "getStatus" \in obj.throws THEN Done(c2, Some(JniError)) ELSE
    LET c3 == Append(c2, "getErrorMessage")
    IN  IF "getErrorMessage" \in obj.throws THEN Done(c3, Some(JniError)) ELSE
    LET msg == jni_jobject_to_string(obj.error_message)
    IN  IF ~IsOk(msg) THEN Done(c3, Some(msg))
        ELSE Done(c3, Some(error_of_status(obj.status, msg.val)))

\* lines 130-145 and 172-196: the payload accessor, then the metadata
payload_of(obj, calls, accessor, payload) ==
    LET c2 == Append(calls, accessor)
    IN  IF accessor \in obj.throws THEN Done(c2, JniError) ELSE
    LET c3 == Append(c2, "getMetadata")
    IN  IF "getMetadata" \in obj.throws THEN Done(c3, JniError)
        ELSE Done(c3, Ok([payload |-> payload, metadata |-> obj.metadata]))

StringOf(ref) == jni_jobject_to_string(ref).val
ReaderOf(ref) == ref

JStringResult_new(obj) ==
    LET of(e) == IF e.ret # None THEN Done(e.calls, e.ret[1])
                 ELSE payload_of(obj, e.calls, "getContent", StringOf(obj.payload))
    IN  of(error_envelope(obj))

JReaderResult_new(obj) ==
    LET of(e) == IF e.ret # None THEN Done(e.calls, e.ret[1])
                 ELSE payload_of(obj, e.calls, "getReader", ReaderOf(obj.payload))
    IN  of(error_envelope(obj))

----------------------------------------------------------------------------
(* JEmbeddedDocument::new and JEmbeddedExtractResult::new, wrappers.rs 423-542 *)

DocAccessors ==
    <<"getResourceName", "getContentType", "getContent", "getEmbeddedRelationshipId">>

\* lines 494-541: a null content array is an empty Vec, a null relationship id is None
JEmbeddedDocument_new(doc) ==
    EmbeddedDocument(jni_jobject_to_string(doc.resource_name).val,
                     jni_jobject_to_string(doc.content_type).val,
                     IF doc.content # None THEN doc.content[1] ELSE <<>>,
                     IF doc.embedded_relationship_id # None
                     THEN Some(jni_jobject_to_string(doc.embedded_relationship_id).val)
                     ELSE None)

\* lines 460-470: List.get and the four accessors, element by element
RECURSIVE list_calls(_)
list_calls(n) ==
    IF n = 0 THEN <<>> ELSE list_calls(n - 1) \o <<"List.get">> \o DocAccessors

JEmbeddedExtractResult_new(obj) ==
    LET c1 == <<"getErrorCode">>
    IN  IF "getErrorCode" \in obj.throws THEN Done(c1, JniError) ELSE
    LET error_code == as_u8(obj.error_code)
        c2 == IF error_code # 0 THEN Append(c1, "getErrorMessage") ELSE c1
    IN  IF error_code # 0 /\ "getErrorMessage" \in obj.throws THEN Done(c2, JniError) ELSE
    LET error_message == IF error_code # 0 /\ obj.error_message # None
                         THEN Some(jni_jobject_to_string(obj.error_message).val)
                         ELSE None
        c3 == Append(c2, "getEmbeddedDocuments")
    IN  IF "getEmbeddedDocuments" \in obj.throws THEN Done(c3, JniError) ELSE
    LET c4 == Append(c3, "List.size")
    \* a call on a null list reference is a JNI NullPtr error
    IN  IF obj.documents = None THEN Done(c4, JniError) ELSE
    LET list == obj.documents[1]
    IN  Done(c4 \o list_calls(Len(list)),
             Ok([error_code |-> error_code, error_message |-> error_message,
                 documents |-> [i \in 1..Len(list) |-> JEmbeddedDocument_new(list[i])],
                 \* line 474: Metadata::new()
                 metadata |-> EmptyMetadata]))

----------------------------------------------------------------------------
(* extract_embedded_from_file and extract_embedded_from_bytes,                *)
(* parse_embedded.rs 16-81 and 84-153; they differ in the synthetic message   *)

embedded_result_without_foreign_message(j, synthetic) ==
    IF ~IsOk(j.ret) THEN j
    ELSE IF j.ret.val.error_code # 0
    THEN Done(j.calls, Err("ParseError", Msg(synthetic, <<j.ret.val.error_code>>)))
    ELSE Done(j.calls, Ok(EmbeddedExtractResult(j.ret.val.documents, j.ret.val.metadata)))

embedded_result(j, synthetic) ==
    IF ~IsOk(j.ret) THEN j
    ELSE LET j_result == j.ret.val
    IN  IF j_result.error_code # 0
        THEN Done(j.calls,
                  Err("ParseError",
                      IF j_result.error_message # None THEN j_result.error_message[1]
                      ELSE Msg(synthetic, <<j_result.error_code>>)))
        ELSE Done(j.calls, Ok(EmbeddedExtractResult(j_result.documents, j_result.metadata)))

extract_embedded_from_file(env) ==
    IF ~issued("extractEmbedded", env).ok THEN Done(<<>>, JniError)
    ELSE embedded_result(JEmbeddedExtractResult_new(env.obj),
                         "Embedded extraction failed with code {}")

extract_embedded_from_bytes(env) ==
    IF ~issued("extractEmbeddedFromBytes", env).ok THEN Done(<<>>, JniError)
    ELSE embedded_result(JEmbeddedExtractResult_new(env.obj),
                         "Embedded extraction from bytes failed with code {}")

----------------------------------------------------------------------------
(* One foreign result object, unmarshalled by one operation *)

Operations ==
    {"JStringResult::new", "JReaderResult::new", "extract_embedded_from_file",
     "extract_embedded_from_bytes", "extract_embedded_optimized"}

\* the static method of TikaNativeMain a strategy calls
EntryOf(op) ==
    IF op = "extract_embedded_from_file" THEN "extractEmbedded"
    ELSE IF op = "extract_embedded_from_bytes" THEN "extractEmbeddedFromBytes"
    ELSE "extractEmbeddedOptimized"

Strategies ==
    {"extract_embedded_from_file", "extract_embedded_from_bytes",
     "extract_embedded_optimized"}

Apply(op, env) ==
    IF op = "JStringResult::new" THEN JStringResult_new(env.obj)
    ELSE IF op = "JReaderResult::new" THEN JReaderResult_new(env.obj)
    ELSE IF op = "extract_embedded_from_file" THEN extract_embedded_from_file(env)
    ELSE IF op = "extract_embedded_from_bytes" THEN extract_embedded_from_bytes(env)
    ELSE extract_embedded_optimized(env)

Unmarshal(op, env) ==
    /\ u_op = "none"
    /\ u_op' = op
    /\ u_obj' = env.obj
    /\ \E done \in {Apply(op, env)} :
           /\ u_calls' = done.calls
           /\ u_ret' = <<done.ret>>
    /\ u_log' = IF op \in Strategies THEN issued(EntryOf(op), env).log ELSE <<>>
    /\ u_env' = [attach |-> env.attach, setup |-> env.setup, returns |-> env.returns]
    /\ UNCHANGED <<codecVars, streamVars, readerVars>>

\* status and error-code bytes the foreign side may report (jbyte)
StatusBytes == {-1, 0, 1, 2, 3}

ParentMetadata == <<(<<"Content-Type", <<"application/zip">>>>)>>

\* subsets of the accessors with at most one element
AtMostOne(names) == {{}} \cup {{n} : n \in names}

JavaString(s) == Some(s)

TextResults(payload, accessor) ==
    [is_error : BOOLEAN, status : StatusBytes, error_message : {JavaString(ForeignMsg)},
     payload : {Some(payload)}, metadata : {ParentMetadata},
     throws : AtMostOne({"isError", "getStatus", "getErrorMessage", accessor, "getMetadata"})]

JavaDoc(d) ==
    [resource_name |-> JavaString(d.resource_name),
     content_type |-> JavaString(d.content_type),
     content |-> IF d.content = <<>> THEN None ELSE Some(d.content),
     embedded_relationship_id |->
         IF d.embedded_relationship_id = None THEN None
         ELSE JavaString(d.embedded_relationship_id[1])]

JavaLists == {None} \cup {Some([i \in 1..Len(v) |-> JavaDoc(v[i])]) : v \in DocSeqsTo(MaxPacked)}

EmbeddedResults ==
    [error_code : StatusBytes, error_message : {None, JavaString(ForeignMsg)},
     documents : JavaLists, metadata : {ParentMetadata},
     throws : AtMostOne({"getErrorCode", "getErrorMessage", "getEmbeddedDocuments"})]

OptimizedResults ==
    [error_code : StatusBytes, error_message : {None, JavaString(ForeignMsg)},
     packed_data : {None, Some(pack_documents(<<DocA, DocC>>))},
     document_count : {0, 2},
     throws : AtMostOne({"getErrorCode", "getErrorMessage", "getDocumentCount",
                        "getPackedData"})]

ObjectsOf(op) ==
    IF op = "JStringResult::new" THEN TextResults(<<116>>, "getContent")
    ELSE IF op = "JReaderResult::new" THEN TextResults("ReaderInputStream", "getReader")
    ELSE IF op = "extract_embedded_optimized" THEN OptimizedResults
    ELSE EmbeddedResults

----------------------------------------------------------------------------
(* JReaderInputStream, wrappers.rs 16-106.  Sizes are jsize values; request   *)
(* lengths stay below 2^31, where `buf.len() as jsize` is the length itself.  *)

DEFAULT_BUF_SIZE == 32768

\* how far above DEFAULT_BUF_SIZE a read request may go
MaxGrow == 2
\* reads per reader
MaxReads == 3

ReadSizes == {0, 1, DEFAULT_BUF_SIZE} \cup {DEFAULT_BUF_SIZE + k : k \in 1..MaxGrow}

\* the JNI step of a read that fails, if any
ReadFailures ==
    {"none", "attach", "new_byte_array", "new_global_ref", "read", "get_byte_array_region"}

\* what the Java read returns for a request of `length` bytes
ReadCounts(length) == {-1, 0, length}

\* how many leading bytes of the Java array and of the caller's buf are kept
TrackedBytes == 2

Tracked(length) == IF length < TrackedBytes THEN length ELSE TrackedBytes

\* the byte the Java read stores, and the byte the caller's buf held before
FillBytes == {65, 66}
PriorBytes == {170}

\* env.new_byte_array: a zeroed array
new_byte_array(length) == [i \in 1..Tracked(length) |-> 0]

\* lines 64-74: read(buffer, 0, length) stores the n bytes it read from offset 0
java_read(array, n, fill) == [i \in 1..Len(array) |-> IF i <= n THEN fill ELSE array[i]]

\* lines 86-87: get_byte_array_region(array, 0, buf) fills all of buf from the array
get_byte_array_region(array, buf) == [i \in 1..Len(buf) |-> array[i]]

IoError == Err("io::Error", Msg("jni", <<>>))

\* JReaderInputStream::new, lines 25-37: the array and both global references
ReaderNew(ok) ==
    /\ r_state = "none"
    /\ IF ok
       THEN /\ r_state' = "open"
            /\ r_capacity' = DEFAULT_BUF_SIZE
            /\ r_buffer' = DEFAULT_BUF_SIZE
            /\ r_array' = new_byte_array(DEFAULT_BUF_SIZE)
       ELSE /\ r_state' = "failed"
            /\ UNCHANGED <<r_capacity, r_buffer, r_array>>
    /\ UNCHANGED <<r_reads, r_closes, r_ret, r_buf>>
    /\ UNCHANGED <<codecVars, streamVars, resultVars>>

\* lines 44-55: does this request replace the scratch array?
grows_always(length, capacity, fail) ==
    fail \notin {"attach", "new_byte_array", "new_global_ref"}

grows(length, capacity, fail) ==
    /\ length > capacity
    /\ fail \notin {"attach", "new_byte_array", "new_global_ref"}

\* lines 40-95: the result of a read of `length` bytes
read_result_eof_is_error(length, capacity, fail, n) ==
    IF fail = "attach" THEN IoError
    ELSE IF length > capacity /\ fail \in {"new_byte_array", "new_global_ref"} THEN IoError
    ELSE IF fail \in {"read", "get_byte_array_region"} THEN IoError
    ELSE IF n = -1 THEN IoError
    ELSE Ok(n)

read_result(length, capacity, fail, n) ==
    IF fail = "attach" THEN IoError
    ELSE IF length > capacity /\ fail \in {"new_byte_array", "new_global_ref"} THEN IoError
    ELSE IF fail \in {"read", "get_byte_array_region"} THEN IoError
    ELSE IF n = -1 THEN Ok(0)
    ELSE Ok(n)

\* lines 40-74: does the Java read return?
read_returns(length, capacity, fail) ==
    /\ fail # "attach"
    /\ ~(length > capacity /\ fail \in {"new_byte_array", "new_global_ref"})
    /\ fail # "read"

\* JReaderInputStream::read, lines 39-96, on a caller buf of `length` bytes that
\* all hold `prior`
ReaderRead(length, fail, n, fill, prior) ==
    /\ r_state = "open"
    /\ r_reads.count < MaxReads
    /\ LET g == grows(length, r_capacity, fail)
           buf == [i \in 1..Tracked(length) |-> prior]
           array == IF g THEN new_byte_array(length) ELSE r_array
           stored == IF read_returns(length, r_capacity, fail)
                     THEN java_read(array, n, fill) ELSE array
       IN  /\ r_capacity' = IF g THEN length ELSE r_capacity
           /\ r_buffer' = IF g THEN length ELSE r_buffer
           /\ r_array' = stored
           /\ r_buf' = IF read_returns(length, r_capacity, fail)
                           /\ fail # "get_byte_array_region"
                        THEN get_byte_array_region(stored, buf) ELSE buf
           /\ r_reads' = [count |-> r_reads.count + 1,
                          seen |-> r_reads.seen \cup {length},
                          grown |-> IF g THEN r_reads.grown \cup {length}
                                    ELSE r_reads.grown,
                          last |-> Some([length |-> length, before |-> r_capacity,
                                         fail |-> fail, grew |-> g, n |-> n,
                                         fill |-> fill, prior |-> prior])]
    /\ r_ret' = <<read_result(length, r_capacity, fail, n)>>
    /\ UNCHANGED <<r_state, r_closes>>
    /\ UNCHANGED <<codecVars, streamVars, resultVars>>

\* lines 101-104: the close calls a drop issues
closes_on_drop_twice(attached, outcome) ==
    IF attached THEN <<outcome, outcome>> ELSE <<>>

closes_on_drop(attached, outcome) ==
    IF attached THEN <<outcome>> ELSE <<>>

\* Drop for JReaderInputStream, lines 99-106; the result of close is discarded
ReaderDrop(attached, outcome) ==
    /\ r_state = "open"
    /\ r_state' = "dropped"
    /\ r_closes' = [attached |-> Some(attached),
                    calls |-> r_closes.calls \o closes_on_drop(attached, outcome)]
    /\ UNCHANGED <<r_capacity, r_buffer, r_reads, r_ret, r_array, r_buf>>
    /\ UNCHANGED <<codecVars, streamVars, resultVars>>

----------------------------------------------------------------------------
(* Specifications *)

ResultIdle ==
    /\ u_op = "none"
    /\ u_obj = <<>>
    /\ u_calls = <<>>
    /\ u_ret = <<>>
    /\ u_log = <<>>
    /\ u_env = <<>>

ReaderIdle ==
    /\ r_state = "none"
    /\ r_capacity = 0
    /\ r_buffer = 0
    /\ r_reads = [count |-> 0, seen |-> {}, grown |-> {}, last |-> None]
    /\ r_closes = [attached |-> None, calls |-> <<>>]
    /\ r_ret = <<>>
    /\ r_array = <<>>
    /\ r_buf = <<>>

\* the decoder on every packed, truncated and damaged buffer of the bounds
InitCodec ==
    /\ c_v \in DocSeqsTo(MaxPacked)
    /\ c_data \in Buffers(c_v)
    /\ c_expected \in ExpectedCounts
    /\ c_result = <<>>
    /\ StreamIdle /\ ResultIdle /\ ReaderIdle

NextCodec == Unpack

SpecCodec == InitCodec /\ [][NextCodec]_vars

\* what the foreign side may answer to the one extraction of a streaming call
StreamEnvs ==
    {Extracted(v) : v \in DocSeqsTo(MaxDocs)}
    \cup {FailingSetup(k, OptimizedResult(0, None, None, 0, {})) : k \in {2, 4, 31}}
    \cup {ForeignEnv(FALSE, TRUE, OptimizedResult(0, None, None, 0, {})),
          ForeignEnv(TRUE, FALSE, OptimizedResult(0, None, None, 0, {})),
          ForeignEnv(TRUE, TRUE, OptimizedResult(0, None, None, 0, {})),
          ForeignEnv(TRUE, TRUE, OptimizedResult(2, Some(ForeignMsg), None, 0, {})),
          ForeignEnv(TRUE, TRUE,
                     OptimizedResult(0, None, Some(pack_documents(<<DocA>>)), 2, {})),
          ForeignEnv(TRUE, TRUE,
                     OptimizedResult(0, None, Some(<<0, 0, 0, 1, 0, 0>>), 1, {}))}

InitStream == CodecIdle /\ StreamIdle /\ ResultIdle /\ ReaderIdle

NextStream ==
    \/ \E env \in StreamEnvs, batch_size \in 0..MaxBatch : StreamStart(env, batch_size)
    \/ StreamPush
    \/ \E answer \in Answers : StreamBatch(answer)
    \/ \E answer \in Answers : StreamRemainder(answer)
    \/ StreamReturn

SpecStream == InitStream /\ [][NextStream]_vars

InitResult == CodecIdle /\ StreamIdle /\ ResultIdle /\ ReaderIdle

\* the positions of the calls between the attach and the static call
SetupCalls(op) == 2..(Len(strategy_calls(EntryOf(op))) - 1)

\* one object is unmarshalled; the calls up to the static call succeed or the
\* k-th of them fails
NextResult ==
    \/ /\ u_op = "none"
       /\ \E op \in Operations, attach \in BOOLEAN, returns \in BOOLEAN :
              \E obj \in ObjectsOf(op) : Unmarshal(op, ForeignEnv(attach, returns, obj))
    \/ /\ u_op = "none"
       /\ \E op \in Strategies :
              \E k \in SetupCalls(op), obj \in ObjectsOf(op) :
                  Unmarshal(op, FailingSetup(k, obj))

SpecResult == InitResult /\ [][NextResult]_vars

InitReader == CodecIdle /\ StreamIdle /\ ResultIdle /\ ReaderIdle

NextReader ==
    \/ \E ok \in BOOLEAN : ReaderNew(ok)
    \/ \E length \in ReadSizes, fail \in ReadFailures :
           \E n \in ReadCounts(length), fill \in FillBytes, prior \in PriorBytes :
               ReaderRead(length, fail, n, fill, prior)
    \/ \E attached \in BOOLEAN, outcome \in {"ok", "failed"} : ReaderDrop(attached, outcome)

SpecReader == InitReader /\ [][NextReader]_vars

----------------------------------------------------------------------------
(* Properties of extract_embedded_streaming *)

CeilDiv(a, b) == (a + b - 1) \div b

IsPrefix(p, s) == Len(p) <= Len(s) /\ p = SubSeq(s, 1, Len(p))

AllContinue == \A i \in 1..Len(s_answers) : s_answers[i] = Ok(TRUE)

C2_StopIsFinal ==
    \A i \in 1..Len(s_answers) :
        s_answers[i] = Ok(FALSE) =>
            /\ i = Len(s_answers)
            /\ Len(s_calls) = i
            /\ s_pc = "done"
            /\ s_ret = <<Ok(Unit)>>
            /\ IsPrefix(Concat(s_calls), s_documents)

\* stop on the first of three groups, two documents undelivered
C2_Witness ==
    /\ s_answers = <<Ok(FALSE)>>
    /\ s_batch_size = 1
    /\ s_documents = <<DocA, Lossy(DocB), DocC>>
    /\ s_calls = <<(<<DocA>>)>>
    /\ s_pc = "done"

----------------------------------------------------------------------------
(* Properties of unpack_optimized_data *)

Unpacked == c_result # <<>>

DeclaredCount == i32_from_be_bytes(SubSeq(c_data, 1, 4))

\* C3: whenever the count declared in the first four bytes differs from the
\* expected count, for negative expected counts too, the decoder returns a
\* ParseError: no panic, no documents.
C3_CountMismatchIsParseError ==
    (Unpacked /\ Len(c_data) >= 4 /\ DeclaredCount # c_expected) =>
        IsErrOf(c_result[1], "ParseError")

\* c_data is the packed form of c_v cut short
IsTruncated ==
    /\ Len(c_data) < Len(pack_documents(c_v))
    /\ c_data = SubSeq(pack_documents(c_v), 1, Len(c_data))

\* C4: a packed buffer cut at any offset before its end decodes to a ParseError,
\* whatever non-negative count is expected: no panic, no documents.
C4_TruncatedIsParseError ==
    (Unpacked /\ IsTruncated /\ c_expected >= 0) => IsErrOf(c_result[1], "ParseError")

\* the second document's content blob lacks its last byte
C4_Witness ==
    /\ Unpacked
    /\ c_v = <<DocB, DocA>>
    /\ c_expected = 2
    /\ Len(c_data) = Len(pack_documents(c_v)) - 1
    /\ IsTruncated
    /\ IsErrOf(c_result[1], "ParseError")
    /\ c_result[1].msg.fmt = "Failed to read content: {}"

----------------------------------------------------------------------------
(* Properties of the result wrappers *)

Unmarshalled == u_ret # <<>>

TextOps == {"JStringResult::new", "JReaderResult::new"}
EmbeddedOps == Operations \ TextOps

KindOfStatus(status) ==
    IF status = 1 THEN "IoError" ELSE IF status = 2 THEN "ParseError" ELSE "Unknown"

\* C6: a string or reader result that reports is-error, and whose status and
\* message are read, fails with IoError for status 1, ParseError for status 2
\* and Unknown for any other status, carrying the foreign message; a payload
\* is returned only when is-error is false.
C6_TextResultErrorMapping ==
    (Unmarshalled /\ u_op \in TextOps) =>
        /\ (/\ u_obj.is_error
            /\ u_obj.throws \cap {"isError", "getStatus", "getErrorMessage"} = {})
           => u_ret[1] = Err(KindOfStatus(u_obj.status), u_obj.error_message[1])
        /\ IsOk(u_ret[1]) =>
              /\ ~u_obj.is_error
              /\ u_ret[1].val.metadata = u_obj.metadata

\* a reader result with status 1 fails with IoError and the foreign message
C6_Witness ==
    /\ Unmarshalled
    /\ u_op = "JReaderResult::new"
    /\ u_obj.is_error /\ u_obj.status = 1 /\ u_obj.throws = {}
    /\ u_ret = <<Err("IoError", ForeignMsg)>>
    /\ u_calls = <<"isError", "getStatus", "getErrorMessage">>

\* C7: the embedded-extraction strategies map a foreign error code as the string
\* and reader results map a status: 1 to IoError, 2 to ParseError, any other
\* nonzero code to Unknown.
C7_SharedErrorMapping ==
    (/\ Unmarshalled
     /\ u_op \in EmbeddedOps
     /\ u_calls # <<>>
     /\ u_obj.throws = {}
     /\ as_u8(u_obj.error_code) # 0
     /\ (u_op # "extract_embedded_optimized" => u_obj.documents # None))
    => IsErrOf(u_ret[1], KindOfStatus(as_u8(u_obj.error_code)))

PayloadAccessors ==
    {"getContent", "getReader", "getMetadata", "getEmbeddedDocuments", "List.size",
     "List.get", "getResourceName", "getContentType", "getEmbeddedRelationshipId",
     "getDocumentCount", "getPackedData",
     "ByteBuffer.capacity", "ByteBuffer.rewind", "ByteBuffer.get"}

SignalsError ==
    IF u_op \in TextOps THEN u_obj.is_error ELSE as_u8(u_obj.error_code) # 0

\* C8: for each of the four result types the error status is the first thing
\* queried, and no payload accessor is invoked on a result that signals an error.
C8_EnvelopeBeforePayload ==
    (Unmarshalled /\ u_calls # <<>>) =>
        /\ u_calls[1] \in {"isError", "getErrorCode"}
        /\ SignalsError => \A i \in 1..Len(u_calls) : u_calls[i] \notin PayloadAccessors

----------------------------------------------------------------------------
(* Properties of JReaderInputStream *)

MaxOf(S) == CHOOSE x \in S : \A y \in S : y <= x

Constructed == r_state \in {"open", "dropped"}

\* C9 as claimed: every dropped reader has had exactly one close issued, at drop.
C9_ExactlyOneClose ==
    /\ r_state = "dropped" => Len(r_closes.calls) = 1
    /\ r_state # "dropped" => r_closes.calls = <<>>

\* C9, amended: close is issued only at drop and never more than once; it is
\* issued exactly once when the thread attaches at drop and not at all when the
\* attach fails; whatever the close call returns, the drop completes.
C9_CloseAtMostOnceAtDrop ==
    /\ Len(r_closes.calls) <= 1
    /\ r_state # "dropped" => r_closes.calls = <<>> /\ r_closes.attached = None
    /\ r_state = "dropped" =>
          /\ r_closes.attached # None
          /\ Len(r_closes.calls) = (IF r_closes.attached[1] THEN 1 ELSE 0)

\* dropped after reads the last of which failed; the one close failed too
C9_Witness ==
    /\ r_state = "dropped"
    /\ r_reads.count >= 2
    /\ r_reads.last[1].fail = "read"
    /\ r_closes.calls = <<"failed">>

\* C10 as claimed: a request above the capacity always sets the capacity to
\* the request, and after a growth the capacity is the largest request seen.
C10_CapacityIsLargestRequest ==
    Constructed =>
        /\ r_reads.count = 0 => r_capacity = DEFAULT_BUF_SIZE
        /\ r_reads.last # None =>
              LET last == r_reads.last[1]
              IN  /\ r_capacity >= last.before
                  /\ last.length > last.before =>
                        r_capacity = last.length /\ r_buffer = last.length
                  /\ last.length <= last.before => r_capacity = last.before
                  /\ last.grew => r_capacity = MaxOf({DEFAULT_BUF_SIZE} \cup r_reads.seen)

\* C10, amended: the capacity starts at DEFAULT_BUF_SIZE and never decreases; a
\* request above it sets capacity and scratch array to the request when the
\* thread attaches and the array and its global reference are created, and
\* leaves both unchanged otherwise; a request of at most the capacity leaves it
\* unchanged; the capacity is the largest of DEFAULT_BUF_SIZE and the requests
\* whose growth succeeded.
C10_CapacityIsLargestGrowth ==
    Constructed =>
        /\ r_reads.count = 0 => r_capacity = DEFAULT_BUF_SIZE
        /\ r_buffer = r_capacity
        /\ r_capacity = MaxOf({DEFAULT_BUF_SIZE} \cup r_reads.grown)
        /\ r_reads.last # None =>
              LET last == r_reads.last[1]
                  created == last.fail \notin {"attach", "new_byte_array", "new_global_ref"}
              IN  /\ r_capacity >= last.before
                  /\ (last.length > last.before /\ created) => r_capacity = last.length
                  /\ (last.length > last.before /\ ~created) =>
                        r_capacity = last.before /\ IsErr(r_ret[1])
                  /\ last.length <= last.before => r_capacity = last.before

\* a growth to 32769 after a larger request failed, then a smaller request
C10_Witness ==
    /\ Constructed
    /\ r_reads.count = 3
    /\ r_reads.seen = {1, DEFAULT_BUF_SIZE + 1, DEFAULT_BUF_SIZE + 2}
    /\ r_reads.grown = {DEFAULT_BUF_SIZE + 1}
    /\ r_reads.last[1].length = 1
    /\ r_capacity = DEFAULT_BUF_SIZE + 1

----------------------------------------------------------------------------
(* Properties of JReaderInputStream::read *)

\* the last read went through without a failing JNI step
ReadReturned ==
    /\ Constructed
    /\ r_reads.last # None
    /\ r_reads.last[1].fail = "none"

\* C11: a read whose Java read returns -1 (end of stream) returns Ok(0), not an
\* error, and a read whose Java read returns n >= 0 returns Ok(n); this holds of
\* every read, so of every read that follows an end of stream too.
C11_EndOfStreamIsZero ==
    ReadReturned =>
        LET n == r_reads.last[1].n
        IN  /\ n = -1 => r_ret[1] = Ok(0)
            /\ n >= 0 => r_ret[1] = Ok(n)

\* a second read in a row that ends with the end-of-stream sentinel
C11_Witness ==
    /\ ReadReturned
    /\ r_reads.count >= 2
    /\ r_reads.last[1].n = -1
    /\ r_ret = <<Ok(0)>>

\* C12: after a read whose Java read returned n (end of stream counting as 0),
\* the caller's buf holds the bytes just read at positions [0, n) and what it
\* held before at positions [n, buf.len()).
C12_CopiesExactlyN ==
    ReadReturned =>
        LET last == r_reads.last[1]
        IN  \A i \in 1..Len(r_buf) :
                r_buf[i] = IF i <= last.n THEN last.fill ELSE last.prior

----------------------------------------------------------------------------
(* Properties of extract_embedded_streaming: callback errors *)

\* the groups the callback received before its i-th invocation
Earlier(i) == Concat(SubSeq(s_calls, 1, i - 1))

\* the number of documents in a full group: a batch is handed over as soon as
\* it holds batch_size documents, and never before it holds one
GroupSize == IF s_batch_size = 0 THEN 1 ELSE s_batch_size

\* C13: when the callback returns an error on its k-th invocation, the call
\* returns that error, the callback is not invoked again, and the k-1 groups
\* delivered before were the first (k-1)*B documents in their order.
C13_CallbackErrorAfterPrefix ==
    \A k \in 1..Len(s_answers) :
        IsErr(s_answers[k]) =>
            /\ s_pc = "done"
            /\ s_ret = <<s_answers[k]>>
            /\ Len(s_answers) = k /\ Len(s_calls) = k
            /\ Earlier(k) = SubSeq(s_documents, 1, (k - 1) * s_batch_size)

\* C13, amended: as C13, the k-1 groups delivered before being the first
\* (k-1)*B documents for B >= 1 and the first k-1 documents for B = 0.
C13_CallbackErrorAfterFullGroups ==
    \A k \in 1..Len(s_answers) :
        IsErr(s_answers[k]) =>
            /\ s_pc = "done"
            /\ s_ret = <<s_answers[k]>>
            /\ Len(s_answers) = k /\ Len(s_calls) = k
            /\ \A i \in 1..(k - 1) : Len(s_calls[i]) = GroupSize
            /\ Earlier(k) = SubSeq(s_documents, 1, (k - 1) * GroupSize)

\* an error from the final partial group, after one full group of two
C13_Witness ==
    /\ s_answers = <<Ok(TRUE), CallbackError>>
    /\ s_batch_size = 2
    /\ s_documents = <<DocA, Lossy(DocB), DocC>>
    /\ s_calls = <<(<<DocA, Lossy(DocB)>>), (<<DocC>>)>>
    /\ s_ret = <<CallbackError>>

----------------------------------------------------------------------------
(* Properties of the embedded-extraction strategies *)

\* the foreign call returned a result object and every accessor call made on
\* it returned (a call on a null list reference does not)
ResultRead ==
    /\ Unmarshalled
    /\ u_op \in EmbeddedOps
    /\ u_calls # <<>>
    /\ u_obj.throws = {}
    /\ (u_op # "extract_embedded_optimized" => u_obj.documents # None)

SyntheticFormat(op) ==
    IF op = "extract_embedded_from_file" THEN "Embedded extraction failed with code {}"
    ELSE IF op = "extract_embedded_from_bytes"
    THEN "Embedded extraction from bytes failed with code {}"
    ELSE "Optimized embedded extraction failed with code {}"

ListedDocuments(list) == [i \in 1..Len(list) |-> JEmbeddedDocument_new(list[i])]

\* C15: a direct-list extraction that succeeds returns the parent document's
\* metadata as the foreign result holds it, and one EmbeddedDocument per
\* element of the foreign list, in list order.
C15_ParentMetadataAndDocuments ==
    (/\ ResultRead
     /\ u_op \in {"extract_embedded_from_file", "extract_embedded_from_bytes"}
     /\ as_u8(u_obj.error_code) = 0)
    => /\ IsOk(u_ret[1])
       /\ u_ret[1].val.documents = ListedDocuments(u_obj.documents[1])
       /\ u_ret[1].val.metadata = u_obj.metadata

----------------------------------------------------------------------------
(* Properties of the call order of a strategy *)

\* the positions of u_log at which `target` is called, less its construction
RECURSIVE SettersOn(_, _)
SettersOn(target, i) ==
    IF i > Len(u_log) THEN <<>>
    ELSE (IF u_log[i][1] = target /\ u_log[i][2] \notin {"find_class", "new_object"}
          THEN <<u_log[i][2]>> ELSE <<>>) \o SettersOn(target, i + 1)

PositionsOf(target) == {i \in 1..Len(u_log) : u_log[i][1] = target}

Before(A, B) == \A i \in A, j \in B : i < j

\* a config is built by find_class and new_object, then its setters
Built(target) ==
    \A i, j \in PositionsOf(target) :
        /\ u_log[i][2] = "find_class" => i <= j
        /\ (u_log[i][2] = "new_object" /\ u_log[j][2] # "find_class") => i <= j

\* no call before the static call failed
SetupDone == u_env.attach /\ u_env.setup = 0

\* C18: a strategy attaches first, builds the PDF, Office and OCR configs in
\* this order, each setter dispatched once (5, 10 and 6 of them), then
\* dispatches the extraction once, then unmarshals the result; when the attach,
\* an object construction or a setter fails, the extraction is never
\* dispatched and the error is returned.
C18_CallOrder ==
    (Unmarshalled /\ u_op \in Strategies) =>
        /\ u_log[1] = AttachCall
        /\ \A i \in 2..Len(u_log) : u_log[i] # AttachCall
        /\ Before(PositionsOf("PDFParserConfig"), PositionsOf("OfficeParserConfig"))
        /\ Before(PositionsOf("OfficeParserConfig"), PositionsOf("TesseractOCRConfig"))
        /\ Built("PDFParserConfig") /\ Built("OfficeParserConfig")
        /\ Built("TesseractOCRConfig")
        /\ IsPrefix(SettersOn("PDFParserConfig", 1), PdfSetters)
        /\ IsPrefix(SettersOn("OfficeParserConfig", 1), OfficeSetters)
        /\ IsPrefix(SettersOn("TesseractOCRConfig", 1), OcrSetters)
        /\ Cardinality(PositionsOf("TikaNativeMain")) <= 1
        /\ SetupDone =>
              /\ PositionsOf("TikaNativeMain") = {Len(u_log)}
              /\ u_log[Len(u_log)] = <<"TikaNativeMain", EntryOf(u_op)>>
              /\ Len(SettersOn("PDFParserConfig", 1)) = 5
              /\ Len(SettersOn("OfficeParserConfig", 1)) = 10
              /\ Len(SettersOn("TesseractOCRConfig", 1)) = 6
        /\ ~SetupDone =>
              /\ PositionsOf("TikaNativeMain") = {}
              /\ u_calls = <<>>
              /\ u_ret = <<JniError>>
        /\ u_calls # <<>> => SetupDone /\ u_env.returns

\* the OCR language setter fails: 31 calls, none of them the extraction
C18_Witness ==
    /\ Unmarshalled
    /\ u_op = "extract_embedded_from_file"
    /\ u_env.setup = 31
    /\ Len(u_log) = 31
    /\ u_log[31] = <<"TesseractOCRConfig", "setLanguage">>
    /\ SettersOn("OfficeParserConfig", 1) = OfficeSetters
    /\ u_ret = <<JniError>>

----------------------------------------------------------------------------
(* Properties of extract_embedded_streaming: the extraction *)

\* how often the log dispatches the optimized extraction
RECURSIVE Dispatches(_)
Dispatches(log) ==
    IF log = <<>> THEN 0
    ELSE (IF Head(log) = <<"TikaNativeMain", "extractEmbeddedOptimized">> THEN 1 ELSE 0)
         + Dispatches(Tail(log))

\* once started, a streaming call has made one extraction, dispatching the
\* foreign operation at most once; batches reach the callback only when the
\* extraction returned Ok, and they are cut from its documents; when it
\* returned an error, no batch was delivered and the call returned that error
ExtractedOnce ==
    s_pc # "idle" =>
        /\ Len(s_extracted) = 1
        /\ Dispatches(s_extracted[1].log) <= 1
        /\ IsOk(s_extracted[1].ret) =>
              /\ Dispatches(s_extracted[1].log) = 1
              /\ s_documents = s_extracted[1].ret.val.documents
        /\ s_calls # <<>> => IsOk(s_extracted[1].ret)
        /\ ~IsOk(s_extracted[1].ret) =>
              /\ s_calls = <<>>
              /\ s_pc = "done"
              /\ s_ret = <<s_extracted[1].ret>>

\* a step that invokes the callback starts where the extraction has returned Ok
CallbackAfterExtraction ==
    s_calls' # s_calls =>
        /\ Len(s_extracted) = 1 /\ IsOk(s_extracted[1].ret)
        /\ s_extracted' = s_extracted

\* C16: a streaming call dispatches exactly one optimized extraction and never
\* retries; every callback invocation follows the successful completion of the
\* extraction and its decoding; when the extraction fails (foreign error, no
\* packed data, count mismatch, framing error, JNI failure) the callback is
\* never invoked and the error is returned.
C16_EagerAllOrNothing == []ExtractedOnce /\ [][CallbackAfterExtraction]_vars

\* a count mismatch: the call is over with a ParseError and no callback
C16_Witness ==
    /\ s_pc = "done"
    /\ Len(s_extracted) = 1
    /\ IsErrOf(s_extracted[1].ret, "ParseError")
    /\ s_extracted[1].ret.msg.fmt = "Document count mismatch: expected {}, got {}"
    /\ Dispatches(s_extracted[1].log) = 1
    /\ s_calls = <<>>
    /\ s_ret = <<s_extracted[1].ret>>

----------------------------------------------------------------------------
(* Properties of unpack_optimized_data: arbitrary bytes *)

\* C17: whatever the bytes and the expected count are (negative string or
\* content length prefixes and negative counts included), the decoder returns
\* either the documents or a ParseError: it does not panic.
C17_DecodeNeverPanics ==
    Unpacked => (IsOk(c_result[1]) \/ IsErrOf(c_result[1], "ParseError"))

\* the buffer is the packed form of c_v and the expected count is its length
WellFramed == c_data = pack_documents(c_v) /\ c_expected = Len(c_v)

C20_WitnessEmpty ==
    /\ s_pc = "done" /\ s_ret = <<Ok(Unit)>>
    /\ s_extracted # <<>> /\ IsOk(s_extracted[1].ret)
    /\ s_documents = <<>> /\ s_calls = <<>>

====
